---- MODULE Spec2Model ----
(***************************************************************************)
(* Model of nonreentrant-check.py: the module-level driver that looks the  *)
(* contract up in the loaded Slither project and _check_access_controls,   *)
(* the single pass over the contract's entry points that prints one line   *)
(* per function lacking an access-control modifier.                        *)
(*                                                                         *)
(* Strings are TLA+ strings and the f-strings of the script are modelled   *)
(* by concatenation, so a report is the sequence of lines as printed.      *)
(***************************************************************************)
EXTENDS Naturals, Sequences, FiniteSets, TLC

(***************************************************************************)
(* Bounds and input universes                                              *)
(***************************************************************************)

\* Largest number of entry-point functions of a contract.
MaxFuncs == 2

\* Bare function names the provider may report.
FunctionNames == {"swap", "queryBatchSwap"}

\* Modifier lists a function may carry (str(x) of each modifier, in order).
ModifierLists ==
    { <<>>,
      <<[name |-> "nonReentrant"]>>,
      <<[name |-> "whenNotPaused"]>>,
      <<[name |-> "whenNotPaused"], [name |-> "nonReentrant"]>>,
      <<[name |-> "nonReentrant"], [name |-> "whenNotPaused"]>> }

\* Values of the modifiers_access_controls argument.
RequiredLists ==
    { <<>>, <<"nonReentrant">>, <<"authenticate", "nonReentrant">> }

\* Values of the whitelist argument.
Whitelists ==
    { <<>>, <<"batchSwapGivenIn", "queryBatchSwap">> }

\* The contract name the driver asks for (line 30).
TargetName == "Vault"

\* The contract that declares the functions (prefix of canonical_name).
Declarer == "Vault"

(***************************************************************************)
(* The contract model supplied by Slither                                  *)
(***************************************************************************)

\* Function.canonical_name: contract.function(paramTypes).
canonical_name(name) == Declarer \o "." \o name \o "()"

\* One entry-point function.  Solidity constructors are never view.
Functions ==
    { f \in [ is_constructor : BOOLEAN,
              view           : BOOLEAN,
              modifiers      : ModifierLists,
              name           : FunctionNames,
              canonical_name : { canonical_name(n) : n \in FunctionNames } ] :
        /\ ~(f.is_constructor /\ f.view)
        /\ f.canonical_name = canonical_name(f.name) }

RECURSIVE SeqsUpTo(_, _)
SeqsUpTo(S, n) ==
    IF n = 0 THEN { <<>> }
    ELSE LET shorter == SeqsUpTo(S, n - 1)
         IN  shorter \cup { Append(s, x) : s \in { t \in shorter : Len(t) = n - 1 }, x \in S }

\* Contract.functions_entry_points: an ordered list of functions.
EntryPointLists == SeqsUpTo(Functions, MaxFuncs)

Contracts ==
    { [type |-> "Contract", name |-> TargetName, functions_entry_points |-> fs] :
        fs \in EntryPointLists }

\* A contract of the project that is not the one asked for.
OtherContract ==
    [type |-> "Contract", name |-> "Authorizer", functions_entry_points |-> <<>>]

\* Python's None, what the lookup yields for an absent name.
None == [type |-> "NoneType"]

\* The loaded projects: empty, one holding the target, one holding another contract.
Projects == { {} } \cup { {c} : c \in Contracts } \cup { {OtherContract} }

\* contracts.get_contract_from_name(name)
get_contract_from_name(contracts, name) ==
    IF \E c \in contracts : c.name = name
    THEN CHOOSE c \in contracts : c.name = name
    ELSE None

\* str(contract) as used by the header's f-string.
Str(obj) == IF obj.type = "NoneType" THEN "None" ELSE obj.name

\* x in list
InList(x, list) == \E k \in 1..Len(list) : list[k] = x

(***************************************************************************)
(* The pieces of _check_access_controls                                    *)
(***************************************************************************)

\* Line 11.
HeaderLine(contract) == "### Check " \o Str(contract) \o " access controls"

\* Line 23 printing the bare name instead of the canonical name.
FlagLine_BareName(function) ==
    "\t- " \o function.name \o " should have an non re-eentrant modifier"

\* Line 23.
FlagLine(function) ==
    "\t- " \o function.canonical_name \o " should have an non re-eentrant modifier"

\* Line 26.
NoBugLine == "\t- No bug found"

\* Lines 14-17 without the view test.
Skipped_ConstructorOnly(function) == function.is_constructor

\* Lines 14-17: the two early continues.
Skipped(function) == function.is_constructor \/ function.view

\* Lines 19-21 looking at the first modifier only.
Unprotected_FirstOnly(function, modifiers_access_controls) ==
    \/ Len(function.modifiers) = 0
    \/ ~InList(function.modifiers[1].name, modifiers_access_controls)

\* Lines 19-21 with all() in place of any().
Unprotected_All(function, modifiers_access_controls) ==
    \/ Len(function.modifiers) = 0
    \/ ~ \A k \in 1..Len(function.modifiers) :
            InList(function.modifiers[k].name, modifiers_access_controls)

\* Lines 19-21 treating an empty modifiers_access_controls as "nothing to check".
Unprotected_EmptyDisables(function, modifiers_access_controls) ==
    /\ Len(modifiers_access_controls) > 0
    /\ \/ Len(function.modifiers) = 0
       \/ ~ \E k \in 1..Len(function.modifiers) :
               InList(function.modifiers[k].name, modifiers_access_controls)

\* Lines 19-21: the function has no modifier named in modifiers_access_controls.
Unprotected(function, modifiers_access_controls) ==
    \/ Len(function.modifiers) = 0
    \/ ~ \E k \in 1..Len(function.modifiers) :
            InList(function.modifiers[k].name, modifiers_access_controls)

\* Line 22 matching the canonical name.
Whitelisted_Canonical(function, whitelist) ==
    InList(function.canonical_name, whitelist)

\* Line 22.
Whitelisted(function, whitelist) == InList(function.name, whitelist)

\* Lines 14-24 assigning the accumulator on every checked function.
Iteration_Reassign(function, modifiers_access_controls, whitelist, nbf, out) ==
    IF Skipped(function)
    THEN [no_bug_found |-> nbf, stdout |-> out]
    ELSE IF Unprotected(function, modifiers_access_controls)
              /\ ~Whitelisted(function, whitelist)
         THEN [no_bug_found |-> FALSE, stdout |-> Append(out, FlagLine(function))]
         ELSE [no_bug_found |-> TRUE, stdout |-> out]

\* Lines 14-24: one iteration of the loop body, on the accumulator and the output.
Iteration(function, modifiers_access_controls, whitelist, nbf, out) ==
    IF Skipped(function)
    THEN [no_bug_found |-> nbf, stdout |-> out]
    ELSE IF Unprotected(function, modifiers_access_controls)
              /\ ~Whitelisted(function, whitelist)
         THEN [no_bug_found |-> FALSE, stdout |-> Append(out, FlagLine(function))]
         ELSE [no_bug_found |-> nbf, stdout |-> out]

\* Line 13 over a one-shot iterator that a previous pass has used up.
IterStart_Resumed(consumed) == consumed

\* Line 13: the for statement takes a fresh iterator over the list.
IterStart(consumed) == 0

\* Lines 25-26 without the test of the accumulator.
Epilogue_Always(nbf, out) == Append(out, NoBugLine)

\* Lines 25-26.
Epilogue(nbf, out) == IF nbf THEN Append(out, NoBugLine) ELSE out

(***************************************************************************)
(* State                                                                   *)
(***************************************************************************)

VARIABLES
    contracts,                  \* the loaded project (line 6)
    modifiers_access_controls,  \* second argument of the call
    whitelist,                  \* third argument of the call
    pc,                         \* position in the script
    run,                        \* which invocation is executing
    consumed,                   \* entry points the for loop has taken
    no_bug_found,               \* the accumulator (line 12)
    stdout,                     \* lines printed by the current invocation
    previous                    \* lines printed by the invocation before it

vars == << contracts, modifiers_access_controls, whitelist, pc, run,
           consumed, no_bug_found, stdout, previous >>

\* The contract argument: the result of the lookup on line 30.
contract == get_contract_from_name(contracts, TargetName)

Init ==
    /\ contracts \in Projects
    /\ modifiers_access_controls \in RequiredLists
    /\ whitelist \in Whitelists
    /\ pc = "module"
    /\ run = "first"
    /\ consumed = 0
    /\ no_bug_found = TRUE
    /\ stdout = <<>>
    /\ previous = <<>>

\* Lines 29-33, 11, 12: the call, the header and the accumulator's start.
Call ==
    /\ pc = "module"
    /\ stdout' = Append(stdout, HeaderLine(contract))
    /\ no_bug_found' = TRUE
    /\ pc' = "for"
    /\ UNCHANGED << contracts, modifiers_access_controls, whitelist, run,
                    consumed, previous >>

\* Line 13 on a contract: contract.functions_entry_points is read.
ForEnter ==
    /\ pc = "for"
    /\ contract.type = "Contract"
    /\ consumed' = IterStart(consumed)
    /\ pc' = "loop"
    /\ UNCHANGED << contracts, modifiers_access_controls, whitelist, run,
                    no_bug_found, stdout, previous >>

\* Line 13 on None: the attribute access raises and the script dies.
ForRaise ==
    /\ pc = "for"
    /\ contract.type = "NoneType"
    /\ pc' = "AttributeError"
    /\ UNCHANGED << contracts, modifiers_access_controls, whitelist, run,
                    consumed, no_bug_found, stdout, previous >>

\* Lines 13-24: the loop takes the next function and runs the body on it.
LoopStep ==
    /\ pc = "loop"
    /\ consumed < Len(contract.functions_entry_points)
    /\ LET function == contract.functions_entry_points[consumed + 1]
           after    == Iteration(function, modifiers_access_controls, whitelist,
                                 no_bug_found, stdout)
       IN  /\ no_bug_found' = after.no_bug_found
           /\ stdout' = after.stdout
    /\ consumed' = consumed + 1
    /\ UNCHANGED << contracts, modifiers_access_controls, whitelist, pc, run,
                    previous >>

\* Lines 25-26: the list is exhausted.
LoopExit ==
    /\ pc = "loop"
    /\ consumed >= Len(contract.functions_entry_points)
    /\ stdout' = Epilogue(no_bug_found, stdout)
    /\ pc' = "return"
    /\ UNCHANGED << contracts, modifiers_access_controls, whitelist, run,
                    consumed, no_bug_found, previous >>

\* The same call is made once more on the same arguments.
CallAgain ==
    /\ pc = "return"
    /\ run = "first"
    /\ run' = "second"
    /\ previous' = stdout
    /\ stdout' = <<>>
    /\ pc' = "module"
    /\ UNCHANGED << contracts, modifiers_access_controls, whitelist,
                    consumed, no_bug_found >>

Next ==
    \/ Call
    \/ ForEnter
    \/ ForRaise
    \/ LoopStep
    \/ LoopExit
    \/ CallAgain

Spec == Init /\ [][Next]_vars

TypeOK ==
    /\ contracts \in Projects
    /\ pc \in {"module", "for", "loop", "return", "AttributeError"}
    /\ run \in {"first", "second"}
    /\ consumed \in 0..(MaxFuncs + 1)
    /\ no_bug_found \in BOOLEAN

(***************************************************************************)
(* Vocabulary of the properties                                            *)
(***************************************************************************)

Range(list) == { list[k] : k \in 1..Len(list) }

\* The pass is running on, or has returned from, a contract.
InPass == pc \in {"loop", "return"}

\* The step in which the loop examines entry point number consumed + 1.
Examines == pc = "loop" /\ consumed' = consumed + 1

\* The function a step that satisfies Examines is about.
Examined == contract.functions_entry_points[consumed + 1]

\* The step prints nothing and leaves the accumulator alone.
Silent == stdout' = stdout /\ no_bug_found' = no_bug_found

\* The function has a modifier whose string form is in modifiers_access_controls.
HasRequiredModifier(f) ==
    \E k \in 1..Len(f.modifiers) :
        f.modifiers[k].name \in Range(modifiers_access_controls)

\* The flag predicate of the specification.
ShouldFlag(f) ==
    /\ f.is_constructor = FALSE
    /\ f.view = FALSE
    /\ ~HasRequiredModifier(f)
    /\ f.name \notin Range(whitelist)

\* The line that reports the function with canonical name c.
Reported(c) == "\t- " \o c \o " should have an non re-eentrant modifier"

\* The header of a report on the target contract.
Header == "### Check Vault access controls"

\* The lines a report owes to the functions fs, in order.
RECURSIVE ExpectedLines(_)
ExpectedLines(fs) ==
    IF fs = <<>> THEN <<>>
    ELSE LET rest == ExpectedLines(Tail(fs))
         IN  IF ShouldFlag(Head(fs))
             THEN <<Reported(Head(fs).canonical_name)>> \o rest
             ELSE rest

\* How many functions of fs satisfy the flag predicate.
NumberToFlag(fs) == Cardinality({ k \in 1..Len(fs) : ShouldFlag(fs[k]) })

IsFlagLine(line) == \E n \in FunctionNames : line = Reported(canonical_name(n))

\* The flagged lines of the report printed so far.
FlaggedLines == SelectSeq(stdout, IsFlagLine)

\* The entry points the loop has examined so far.
ExaminedSoFar == SubSeq(contract.functions_entry_points, 1, consumed)

(***************************************************************************)
(* Properties                                                              *)
(***************************************************************************)

\* C1: the step that examines a function prints a line for it if and only if
\* the function is no constructor, no view function, has no modifier named in
\* modifiers_access_controls and has a bare name outside whitelist.
C1_FlagConditionExact ==
    [][Examines => ((stdout' # stdout) <=> ShouldFlag(Examined))]_vars

\* A pass has returned after flagging one of two functions and passing the other.
C1_Witness ==
    /\ pc = "return"
    /\ Len(contract.functions_entry_points) = 2
    /\ ShouldFlag(contract.functions_entry_points[1])
    /\ ~ShouldFlag(contract.functions_entry_points[2])
    /\ Len(contract.functions_entry_points[2].modifiers) = 2
    /\ Len(FlaggedLines) = 1

\* C2: at every point of the pass the flagged lines printed so far are the
\* lines of the examined functions that satisfy the flag predicate, each with
\* its function's canonical name, in the order of the entry-point list; so
\* their number is the number of such functions.
C2_ReportIsFlaggedSubsequence ==
    InPass =>
        /\ FlaggedLines = ExpectedLines(ExaminedSoFar)
        /\ Len(FlaggedLines) = NumberToFlag(ExaminedSoFar)
        /\ SubSeq(stdout, 2, 1 + Len(FlaggedLines)) = FlaggedLines

\* A returned pass that flagged the second of two functions and not the first.
C2_Witness ==
    /\ pc = "return"
    /\ Len(contract.functions_entry_points) = 2
    /\ ~ShouldFlag(contract.functions_entry_points[1])
    /\ ShouldFlag(contract.functions_entry_points[2])
    /\ stdout = <<Header, Reported(contract.functions_entry_points[2].canonical_name)>>

\* C3: a returned pass has printed the header once, as the first line; its
\* last line is "No bug found" exactly when it has no flagged line, that line
\* occurs nowhere else, and a contract without entry points yields the header
\* followed by "No bug found".
C3_HeaderThenFlagsOrNoBug ==
    pc = "return" =>
        /\ Len(stdout) >= 2
        /\ stdout[1] = Header
        /\ \A k \in 2..Len(stdout) : stdout[k] # Header
        /\ (stdout[Len(stdout)] = NoBugLine) <=> (FlaggedLines = <<>>)
        /\ \A k \in 1..(Len(stdout) - 1) : stdout[k] # NoBugLine
        /\ ~(NoBugLine \in Range(stdout) /\ FlaggedLines # <<>>)
        /\ (contract.functions_entry_points = <<>>) => (stdout = <<Header, NoBugLine>>)

\* A returned pass over two functions that flagged both and printed no
\* "No bug found".
C3_Witness ==
    /\ pc = "return"
    /\ Len(contract.functions_entry_points) = 2
    /\ Len(stdout) = 3
    /\ NoBugLine \notin Range(stdout)

\* C4: when the lookup yields no contract, the run fails before any report
\* line, the header included, is printed.
C4_NothingPrintedForAbsentContract ==
    (contract.type = "NoneType" /\ pc = "AttributeError") => (stdout = <<>>)

\* C5: with an empty modifiers_access_controls every examined function that is
\* no constructor, no view function and not whitelisted has its line in the
\* report, whatever modifiers it carries.
C5_EmptyRequiredFlagsAll ==
    (InPass /\ modifiers_access_controls = <<>>) =>
        \A k \in 1..consumed :
            LET f == contract.functions_entry_points[k]
            IN  (~f.is_constructor /\ ~f.view /\ f.name \notin Range(whitelist))
                    => /\ Reported(f.canonical_name) \in Range(stdout)
                       /\ ~no_bug_found

\* With an empty modifiers_access_controls a function that carries
\* nonReentrant has been flagged.
C5_Witness ==
    /\ pc = "return"
    /\ modifiers_access_controls = <<>>
    /\ Len(contract.functions_entry_points) = 1
    /\ contract.functions_entry_points[1].modifiers = <<[name |-> "nonReentrant"]>>
    /\ ~contract.functions_entry_points[1].view
    /\ Len(stdout) = 2
    /\ stdout[2] # NoBugLine

\* C6: the step that examines a function with a modifier named in
\* modifiers_access_controls prints nothing, whether or not the function is
\* whitelisted and wherever the modifier stands among the others.
C6_RequiredModifierNeverFlagged ==
    [][(Examines /\ HasRequiredModifier(Examined)) => Silent]_vars

\* A function guarded by its second modifier, matched by the second required
\* name, and not whitelisted, has been examined and not flagged.
C6_Witness ==
    /\ pc = "return"
    /\ modifiers_access_controls = <<"authenticate", "nonReentrant">>
    /\ Len(contract.functions_entry_points) = 1
    /\ contract.functions_entry_points[1].modifiers
           = <<[name |-> "whenNotPaused"], [name |-> "nonReentrant"]>>
    /\ ~contract.functions_entry_points[1].is_constructor
    /\ ~contract.functions_entry_points[1].view
    /\ contract.functions_entry_points[1].name \notin Range(whitelist)
    /\ stdout = <<Header, NoBugLine>>

\* C7: the step that examines a function without a required modifier whose
\* bare name is in whitelist prints nothing; every entry point with that bare
\* name is exempt.
C7_WhitelistedNeverFlagged ==
    [][(Examines /\ ~HasRequiredModifier(Examined)
                 /\ Examined.name \in Range(whitelist)) => Silent]_vars

\* Two unguarded, state-changing functions with the same whitelisted bare name
\* have both been examined and neither was flagged.
C7_Witness ==
    /\ pc = "return"
    /\ Len(contract.functions_entry_points) = 2
    /\ \A k \in 1..2 :
          LET f == contract.functions_entry_points[k]
          IN  /\ f.name = "queryBatchSwap"
              /\ f.name \in Range(whitelist)
              /\ ~f.is_constructor /\ ~f.view
              /\ ~HasRequiredModifier(f)
    /\ stdout = <<Header, NoBugLine>>

\* C8: the step that examines a constructor or a view function prints nothing,
\* whatever its modifiers and the whitelist; a returned pass over a contract
\* whose entry points are all constructors or view functions has printed the
\* header and "No bug found".
C8_ConstructorAndViewExempt ==
    /\ [][(Examines /\ (Examined.is_constructor \/ Examined.view)) => Silent]_vars
    /\ []((pc = "return"
             /\ \A k \in 1..Len(contract.functions_entry_points) :
                   \/ contract.functions_entry_points[k].is_constructor
                   \/ contract.functions_entry_points[k].view)
            => stdout = <<Header, NoBugLine>>)

\* A constructor and a view function, both without modifiers and not
\* whitelisted, have been examined and the report is header plus "No bug found".
C8_Witness ==
    /\ pc = "return"
    /\ whitelist = <<>>
    /\ Len(contract.functions_entry_points) = 2
    /\ contract.functions_entry_points[1].is_constructor
    /\ contract.functions_entry_points[2].view
    /\ \A k \in 1..2 : contract.functions_entry_points[k].modifiers = <<>>
    /\ stdout = <<Header, NoBugLine>>

C10_ReadOnlyPassMonotoneAccumulator ==
    [][ /\ contracts' = contracts
        /\ modifiers_access_controls' = modifiers_access_controls
        /\ whitelist' = whitelist
        /\ (pc # "module" /\ no_bug_found = FALSE) => (no_bug_found' = FALSE) ]_vars

\* A flagged function was followed by a compliant, checked one and the
\* accumulator is still False at the return.
C10_Witness ==
    /\ pc = "return"
    /\ no_bug_found = FALSE
    /\ Len(contract.functions_entry_points) = 2
    /\ ShouldFlag(contract.functions_entry_points[1])
    /\ ~contract.functions_entry_points[2].is_constructor
    /\ ~contract.functions_entry_points[2].view
    /\ ~ShouldFlag(contract.functions_entry_points[2])
    /\ contract.functions_entry_points[2].modifiers = <<>>

====
